---- MODULE Spec2Model ----
(***************************************************************************)
(* Model of the stock-ticker aggregator (src/bin/aggregator.rs): the NATS  *)
(* listener task (start_nats_listener), the two mutex-guarded maps of      *)
(* AggregatedState (src/types.rs) and the four axum query handlers.        *)
(*                                                                         *)
(* Abstractions: prices are exact integers (f64 rounding is not modelled), *)
(* the average is the exact quotient kept as a reduced fraction, and a     *)
(* payload is an abstract JSON document (or text that is not JSON).        *)
(***************************************************************************)
EXTENDS Integers, Sequences, FiniteSets, TLC

\* ------------------------------------------------------------------ bounds

\* Number of messages the feed hands to the listener in one run.
MaxFeed == 3

\* Symbols the publisher sends ticks for; MSFT is only ever asked about.
Symbols == {"AAPL", "GOOGL"}
QuerySymbols == Symbols \cup {"MSFT"}
Prices == {1, 2}
Timestamps == {"t1", "t2"}

\* Request handlers the HTTP server runs beside the listener task.
Handlers == {"h1"}

\* ------------------------------------------------------------ tick model

\* StockPrice: symbol, price, timestamp.
StockPrice == [symbol : Symbols, price : Prices, timestamp : Timestamps]

NoTick == [symbol |-> "", price |-> 0, timestamp |-> ""]

JString(s) == [type |-> "string", val |-> s]
JNumber(n) == [type |-> "number", val |-> n]

\* serde_json::to_string(&stock_price): a JSON object with the three named
\* fields of the struct.
Encode(t) ==
    [json |-> TRUE,
     obj  |-> [f \in {"symbol", "price", "timestamp"} |->
                 CASE f = "symbol"    -> JString(t.symbol)
                   [] f = "price"     -> JNumber(t.price)
                   [] f = "timestamp" -> JString(t.timestamp)]]

\* Text that is not JSON at all.
NotJson == [json |-> FALSE, obj |-> << >>]

\* Schema mismatches: the price field missing, the price a string.
MissingPrice ==
    [json |-> TRUE,
     obj  |-> [f \in {"symbol", "timestamp"} |->
                 IF f = "symbol" THEN JString("AAPL") ELSE JString("t1")]]

PriceAsString ==
    [json |-> TRUE,
     obj  |-> [f \in {"symbol", "price", "timestamp"} |->
                 CASE f = "symbol"    -> JString("AAPL")
                   [] f = "price"     -> JString("t1")
                   [] f = "timestamp" -> JString("t1")]]

Malformed == {NotJson, MissingPrice, PriceAsString}

Payloads == {Encode(t) : t \in StockPrice} \cup Malformed

HasField(p, f, ty) == f \in DOMAIN p.obj /\ p.obj[f].type = ty

\* serde_json::from_str::<StockPrice>(&payload): Ok iff the text is a JSON
\* object holding a string symbol, a number price and a string timestamp.
DecodeOk(p) ==
    /\ p.json
    /\ HasField(p, "symbol", "string")
    /\ HasField(p, "price", "number")
    /\ HasField(p, "timestamp", "string")

Decode(p) ==
    [symbol    |-> p.obj["symbol"].val,
     price     |-> p.obj["price"].val,
     timestamp |-> p.obj["timestamp"].val]

\* ------------------------------------------------------- aggregate model

RECURSIVE Gcd(_, _)
Gcd(a, b) == IF b = 0 THEN a ELSE Gcd(b, a % b)

\* The quotient n / d (d > 0, n >= 0) as a fraction in lowest terms.
Quot(n, d) ==
    LET g == Gcd(n, d)
    IN  [num |-> n \div g, den |-> d \div g]

\* The constant 0.0.
Zero == [num |-> 0, den |-> 1]

\* The value or_insert puts in for a symbol seen for the first time.
ZeroStats == [total |-> 0, count |-> 0, average |-> Zero, latest |-> 0]

\* Variant: the total is assigned, not accumulated.
FoldTick_Overwrite(stats, price) ==
    [total   |-> price,
     count   |-> stats.count + 1,
     average |-> Quot(price, stats.count + 1),
     latest  |-> price]

\* Variant: the average is taken before the count is incremented.
FoldTick_StaleCount(stats, price) ==
    [total   |-> stats.total + price,
     count   |-> stats.count + 1,
     average |-> Quot(stats.total + price, stats.count),
     latest  |-> price]

\* stats.total += price; stats.count += 1; stats.latest = price;
\* stats.average = stats.total / stats.count as f64
FoldTick(stats, price) ==
    [total   |-> stats.total + price,
     count   |-> stats.count + 1,
     average |-> Quot(stats.total + price, stats.count + 1),
     latest  |-> price]

\* Variant: a key seen for the first time starts a fresh map, which drops
\* the entries of the other keys.
Entry_Evicts(map, k, default) ==
    IF k \in DOMAIN map THEN map ELSE [x \in {k} |-> default]

\* map.entry(k).or_default() / or_insert(v): the map with k present.
Entry(map, k, default) ==
    IF k \in DOMAIN map THEN map
    ELSE [x \in DOMAIN map \cup {k} |-> IF x = k THEN default ELSE map[x]]

\* Variant: the tick goes to the front of the history.
PushRaw_Front(map, stock) ==
    LET m == Entry(map, stock.symbol, << >>)
    IN  [m EXCEPT ![stock.symbol] = <<stock>> \o @]

\* Variant: a tick equal to the last one stored is not stored again.
PushRaw_Dedup(map, stock) ==
    LET m == Entry(map, stock.symbol, << >>)
        h == m[stock.symbol]
    IN  IF h # << >> /\ h[Len(h)] = stock THEN m
        ELSE [m EXCEPT ![stock.symbol] = Append(@, stock)]

\* raw_map.entry(symbol).or_default().push(stock)
PushRaw(map, stock) ==
    LET m == Entry(map, stock.symbol, << >>)
    IN  [m EXCEPT ![stock.symbol] = Append(@, stock)]

\* Variant: one running aggregate shared by every symbol present.
UpdateStats_AllSymbols(map, stock) ==
    LET m == Entry(map, stock.symbol, ZeroStats)
    IN  [x \in DOMAIN m |-> FoldTick(m[x], stock.price)]

\* stats_map.entry(symbol).or_insert(zero); then the four field updates.
UpdateStats(map, stock) ==
    LET m == Entry(map, stock.symbol, ZeroStats)
    IN  [m EXCEPT ![stock.symbol] = FoldTick(@, stock.price)]

\* Option<T>
None == [some |-> FALSE]
Some(v) == [some |-> TRUE, val |-> v]

\* Variant: an absent key yields an empty value instead of None.
Get_OrDefault(map, k) == IF k \in DOMAIN map THEN Some(map[k]) ELSE Some(<< >>)

\* map.get(&symbol).cloned()
Get(map, k) == IF k \in DOMAIN map THEN Some(map[k]) ELSE None

\* ------------------------------------------------------------------ state

\* The aggregator (src/bin/aggregator.rs).
VARIABLES
    main_pc,      \* main: "bind", "serve" or "exit"
    pc,           \* the listener task's position in start_nats_listener
    result,       \* what start_nats_listener returned: "pending", "Ok", "Err"
    logged,       \* whether main's task printed "NATS listener error"
    delivered,    \* the payloads subscriber.next() has yielded, in order
    cur,          \* the decoded tick the loop body is working on
    raw_data,     \* AggregatedState.raw_data: symbol -> Vec<StockPrice>
    stats_data,   \* AggregatedState.stats_data: symbol -> AggregatedStats
    raw_lock,     \* holder of the raw_data mutex
    stats_lock,   \* holder of the stats_data mutex
    qpc,          \* each request handler's position
    qreq,         \* each request handler's route and path symbol
    qresp         \* each request handler's Json(...) return value

\* The auth service (src/bin/auth_service.rs).
VARIABLES
    authorized_emails,  \* AppState.authorized_emails: HashSet<String>
    auth_lock,          \* holder of the authorized_emails mutex
    apc,                \* each auth handler's position
    areq,               \* each auth handler's route and email
    aresp,              \* each auth handler's return value
    registered          \* the emails some register call has returned for

\* The gated consumer (src/bin/consumer.rs).
VARIABLES
    cpc,          \* main's position
    carg,         \* the email argument, NoArg when none was given
    cres,         \* the authorization lookup: "none", "true", "false", "failed"
    csub,         \* whether client.subscribe("stock_prices") has succeeded
    crecv         \* whether subscriber.next() has yielded a message

vars == <<main_pc, pc, result, logged, delivered, cur, raw_data, stats_data,
          raw_lock, stats_lock, qpc, qreq, qresp,
          authorized_emails, auth_lock, apc, areq, aresp, registered,
          cpc, carg, cres, csub, crecv>>

store == <<raw_data, stats_data>>
locks == <<raw_lock, stats_lock>>
listener == <<pc, result, logged, delivered, cur>>
queries == <<qpc, qreq, qresp>>
aggregator == <<main_pc, listener, store, locks, queries>>
auth == <<authorized_emails, auth_lock, apc, areq, aresp, registered>>
consumer == <<cpc, carg, cres, csub, crecv>>
services == <<auth, consumer>>

Free == "free"
EmptyMap == << >>
NoReq == [op |-> "", symbol |-> ""]
NoResp == [some |-> FALSE, none |-> TRUE]

Ops == {"get_stats", "get_raw", "get_stats_for_symbol", "get_raw_for_symbol"}

\* The requests the router dispatches: the two routes without a path
\* parameter and the two with a symbol.
Requests ==
    {[op |-> o, symbol |-> ""] : o \in {"get_stats", "get_raw"}}
    \cup [op : {"get_stats_for_symbol", "get_raw_for_symbol"},
          symbol : QuerySymbols]

\* Emails clients register and ask about.
Emails == {"a@x.io", "b c@x.io"}

\* Email arguments the consumer is started with.
Args == Emails \cup {"b+c@x.io"}

\* The email the auth service reads from the consumer's lookup URL: the
\* argument is formatted into the query string as it is, a space is sent
\* as %20 and read back as a space, and a '+' is read back as a space.
QueryEmail(arg) == IF arg = "b+c@x.io" THEN "b c@x.io" ELSE arg

\* Request handlers of the auth service.
AuthHandlers == {"r1", "r2"}

NoArg == ""
NoAuthReq == [op |-> "", email |-> ""]

\* AppState { authorized_emails: Arc::new(Mutex::new(HashSet::new())) }
AuthInit ==
    /\ authorized_emails = {}
    /\ auth_lock = Free
    /\ apc = [h \in AuthHandlers |-> "idle"]
    /\ areq = [h \in AuthHandlers |-> NoAuthReq]
    /\ aresp = [h \in AuthHandlers |-> NoResp]
    /\ registered = {}

\* The consumer process as it enters main.
ConsumerInit ==
    /\ cpc = "start"
    /\ carg = NoArg
    /\ cres = "none"
    /\ csub = FALSE
    /\ crecv = FALSE

\* AggregatedState::default() and the freshly spawned listener task.
Init ==
    /\ AuthInit
    /\ ConsumerInit
    /\ main_pc = "bind"
    /\ pc = "connect"
    /\ result = "pending"
    /\ logged = FALSE
    /\ delivered = << >>
    /\ cur = NoTick
    /\ raw_data = EmptyMap
    /\ stats_data = EmptyMap
    /\ raw_lock = Free
    /\ stats_lock = Free
    /\ qpc = [h \in Handlers |-> "idle"]
    /\ qreq = [h \in Handlers |-> NoReq]
    /\ qresp = [h \in Handlers |-> NoResp]

\* ------------------------------------------------------------------- main

\* TcpListener::bind(addr).await? succeeds: axum::serve starts.
BindOk ==
    /\ main_pc = "bind"
    /\ main_pc' = "serve"
    /\ UNCHANGED <<services, listener, store, locks, queries>>

\* TcpListener::bind(addr).await? fails: main returns the error and the
\* runtime is dropped.
BindFail ==
    /\ main_pc = "bind"
    /\ main_pc' = "exit"
    /\ UNCHANGED <<services, listener, store, locks, queries>>

\* A task suspended at an .await is only resumed while the runtime lives.
RuntimeAlive == main_pc # "exit"

\* --------------------------------------------------------------- listener

\* The task main spawns: start_nats_listener returned r; an Err is printed.
Return(r) ==
    /\ pc' = "returned"
    /\ result' = r
    /\ logged' = (r = "Err")

\* ConnectOptions::new().connect(..).await? succeeds.
ConnectOk ==
    /\ RuntimeAlive
    /\ pc = "connect"
    /\ pc' = "subscribe"
    /\ UNCHANGED <<services, main_pc, result, logged, delivered, cur, store, locks, queries>>

\* ConnectOptions::new().connect(..).await? fails.
ConnectFail ==
    /\ RuntimeAlive
    /\ pc = "connect"
    /\ Return("Err")
    /\ UNCHANGED <<services, main_pc, delivered, cur, store, locks, queries>>

\* client.subscribe("stock_prices").await? succeeds.
SubscribeOk ==
    /\ RuntimeAlive
    /\ pc = "subscribe"
    /\ pc' = "next"
    /\ UNCHANGED <<services, main_pc, result, logged, delivered, cur, store, locks, queries>>

\* client.subscribe("stock_prices").await? fails.
SubscribeFail ==
    /\ RuntimeAlive
    /\ pc = "subscribe"
    /\ Return("Err")
    /\ UNCHANGED <<services, main_pc, delivered, cur, store, locks, queries>>

\* Variant: the loop body is entered whether or not the payload decodes.
AfterDecode_Always(p) == "lock_raw"

\* Where the loop goes with a payload: into the body when it decodes,
\* back to subscriber.next() when it does not.
AfterDecode(p) == IF DecodeOk(p) THEN "lock_raw" ELSE "next"

\* Variant: the subscription is polled again after the loop has returned.
NextSome_AfterReturn ==
    /\ RuntimeAlive
    /\ pc \in {"next", "returned"}
    /\ Len(delivered) < MaxFeed
    /\ \E p \in Payloads :
          /\ delivered' = Append(delivered, p)
          /\ pc' = AfterDecode(p)
          /\ cur' = IF DecodeOk(p) THEN Decode(p) ELSE NoTick
    /\ UNCHANGED <<services, main_pc, result, logged, store, locks, queries>>

\* subscriber.next().await yields Some(message); the payload is decoded.
NextSome ==
    /\ RuntimeAlive
    /\ pc = "next"
    /\ Len(delivered) < MaxFeed
    /\ \E p \in Payloads :
          /\ delivered' = Append(delivered, p)
          /\ pc' = AfterDecode(p)
          /\ cur' = IF DecodeOk(p) THEN Decode(p) ELSE NoTick
    /\ UNCHANGED <<services, main_pc, result, logged, store, locks, queries>>

\* subscriber.next().await yields None: the loop ends and Ok(()) is returned.
NextNone ==
    /\ RuntimeAlive
    /\ pc = "next"
    /\ Return("Ok")
    /\ UNCHANGED <<services, main_pc, delivered, cur, store, locks, queries>>

\* state.raw_data.lock().unwrap()
LockRaw ==
    /\ pc = "lock_raw"
    /\ raw_lock = Free
    /\ raw_lock' = "listener"
    /\ pc' = "push_raw"
    /\ UNCHANGED <<services, main_pc, result, logged, delivered, cur, store, stats_lock, queries>>

\* The first block: the push, and the guard dropped at the closing brace.
RecordRaw ==
    /\ pc = "push_raw"
    /\ raw_data' = PushRaw(raw_data, cur)
    /\ raw_lock' = Free
    /\ pc' = "lock_stats"
    /\ UNCHANGED <<services, main_pc, result, logged, delivered, cur, stats_data, stats_lock, queries>>

\* state.stats_data.lock().unwrap()
LockStats ==
    /\ pc = "lock_stats"
    /\ stats_lock = Free
    /\ stats_lock' = "listener"
    /\ pc' = "update_stats"
    /\ UNCHANGED <<services, main_pc, result, logged, delivered, cur, store, raw_lock, queries>>

\* Variant: the stats guard is bound outside the block and is still held
\* when the loop goes back to subscriber.next().await.
RecordStats_KeepsGuard ==
    /\ pc = "update_stats"
    /\ stats_data' = UpdateStats(stats_data, cur)
    /\ pc' = "next"
    /\ cur' = NoTick
    /\ UNCHANGED <<services, main_pc, result, logged, delivered, raw_data, locks, queries>>

\* Variant: get_stats hands out the shared map instead of a clone, so a
\* later fold shows in a value a reader already holds.
RecordStats_Aliased ==
    /\ pc = "update_stats"
    /\ stats_data' = UpdateStats(stats_data, cur)
    /\ qresp' = [h \in DOMAIN qresp |->
                   IF qpc[h] = "respond" /\ qreq[h].op = "get_stats"
                      THEN stats_data' ELSE qresp[h]]
    /\ stats_lock' = Free
    /\ pc' = "next"
    /\ cur' = NoTick
    /\ UNCHANGED <<services, main_pc, result, logged, delivered, raw_data, raw_lock, qpc, qreq>>

\* Order of the timestamps that occur in the feed.
TsRank(t) == IF t = "t1" THEN 1 ELSE 2

\* Variant: event-time ordering; a tick older than the last one stored for
\* its symbol before it does not become the latest price.
RecordStats_EventTime ==
    /\ pc = "update_stats"
    /\ LET h == raw_data[cur.symbol]
           late == /\ Len(h) >= 2
                   /\ TsRank(cur.timestamp) < TsRank(h[Len(h) - 1].timestamp)
           new == UpdateStats(stats_data, cur)
       IN  stats_data' =
             IF late
                THEN [new EXCEPT ![cur.symbol].latest = stats_data[cur.symbol].latest]
                ELSE new
    /\ stats_lock' = Free
    /\ pc' = "next"
    /\ cur' = NoTick
    /\ UNCHANGED <<services, main_pc, result, logged, delivered, raw_data, raw_lock, queries>>

\* The second block: the aggregate update, and the guard dropped.
RecordStats ==
    /\ pc = "update_stats"
    /\ stats_data' = UpdateStats(stats_data, cur)
    /\ stats_lock' = Free
    /\ pc' = "next"
    /\ cur' = NoTick
    /\ UNCHANGED <<services, main_pc, result, logged, delivered, raw_data, raw_lock, queries>>

\* --------------------------------------------------------- query surface

\* The router hands an inbound request to an idle handler.
Dispatch(h) ==
    /\ main_pc = "serve"
    /\ qpc[h] = "idle"
    /\ \E r \in Requests : qreq' = [qreq EXCEPT ![h] = r]
    /\ qpc' = [qpc EXCEPT ![h] = "lock"]
    /\ UNCHANGED <<services, main_pc, listener, store, locks, qresp>>

\* Which of the two mutexes a route's handler locks.
UsesStats(op) == op \in {"get_stats", "get_stats_for_symbol"}

\* state.stats_data.lock().unwrap() in get_stats and get_stats_for_symbol.
HandlerLockStats(h) ==
    /\ qpc[h] = "lock"
    /\ UsesStats(qreq[h].op)
    /\ stats_lock = Free
    /\ stats_lock' = h
    /\ qpc' = [qpc EXCEPT ![h] = "holding"]
    /\ UNCHANGED <<services, main_pc, listener, store, raw_lock, qreq, qresp>>

\* state.raw_data.lock().unwrap() in get_raw and get_raw_for_symbol.
HandlerLockRaw(h) ==
    /\ qpc[h] = "lock"
    /\ ~UsesStats(qreq[h].op)
    /\ raw_lock = Free
    /\ raw_lock' = h
    /\ qpc' = [qpc EXCEPT ![h] = "holding"]
    /\ UNCHANGED <<services, main_pc, listener, store, stats_lock, qreq, qresp>>

\* The value a handler returns: Json(data.clone()) for the two routes
\* without a symbol, Json(data.get(&symbol).cloned()) for the two with one.
Snapshot(req, raw, stats) ==
    CASE req.op = "get_stats"            -> stats
      [] req.op = "get_raw"              -> raw
      [] req.op = "get_stats_for_symbol" -> Get(stats, req.symbol)
      [] req.op = "get_raw_for_symbol"   -> Get(raw, req.symbol)

\* Variant: the per-symbol routes look the symbol up with entry().or_default(),
\* which inserts an entry for a symbol that has none.
HandlerReturn_Entry(h) ==
    /\ qpc[h] = "holding"
    /\ LET req == qreq[h]
           raw == IF req.op = "get_raw_for_symbol"
                     THEN Entry(raw_data, req.symbol, << >>) ELSE raw_data
           stats == IF req.op = "get_stats_for_symbol"
                       THEN Entry(stats_data, req.symbol, ZeroStats) ELSE stats_data
       IN  /\ raw_data' = raw
           /\ stats_data' = stats
           /\ qresp' = [qresp EXCEPT ![h] = Snapshot(req, raw, stats)]
    /\ IF UsesStats(qreq[h].op)
          THEN stats_lock' = Free /\ UNCHANGED raw_lock
          ELSE raw_lock' = Free /\ UNCHANGED stats_lock
    /\ qpc' = [qpc EXCEPT ![h] = "respond"]
    /\ UNCHANGED <<services, main_pc, listener, qreq>>

\* Variant: the guard outlives the handler; the lock is never given back.
HandlerReturn_Leaks(h) ==
    /\ qpc[h] = "holding"
    /\ qresp' = [qresp EXCEPT ![h] = Snapshot(qreq[h], raw_data, stats_data)]
    /\ qpc' = [qpc EXCEPT ![h] = "respond"]
    /\ UNCHANGED <<services, main_pc, listener, store, locks, qreq>>

\* The handler builds its return value and returns; the guard is dropped
\* as the function returns.
HandlerReturn(h) ==
    /\ qpc[h] = "holding"
    /\ qresp' = [qresp EXCEPT ![h] = Snapshot(qreq[h], raw_data, stats_data)]
    /\ IF UsesStats(qreq[h].op)
          THEN stats_lock' = Free /\ UNCHANGED raw_lock
          ELSE raw_lock' = Free /\ UNCHANGED stats_lock
    /\ qpc' = [qpc EXCEPT ![h] = "respond"]
    /\ UNCHANGED <<services, main_pc, listener, store, qreq>>

\* axum serializes the returned Json value and writes the response.
Respond(h) ==
    /\ qpc[h] = "respond"
    /\ qpc' = [qpc EXCEPT ![h] = "idle"]
    /\ qreq' = [qreq EXCEPT ![h] = NoReq]
    /\ qresp' = [qresp EXCEPT ![h] = NoResp]
    /\ UNCHANGED <<services, main_pc, listener, store, locks>>

\* ---------------------------------------------------------- specification

Next ==
    \/ BindOk
    \/ BindFail
    \/ ConnectOk
    \/ ConnectFail
    \/ SubscribeOk
    \/ SubscribeFail
    \/ NextSome
    \/ NextNone
    \/ LockRaw
    \/ RecordRaw
    \/ LockStats
    \/ RecordStats
    \/ \E h \in Handlers : Dispatch(h)
    \/ \E h \in Handlers : HandlerLockStats(h)
    \/ \E h \in Handlers : HandlerLockRaw(h)
    \/ \E h \in Handlers : HandlerReturn(h)
    \/ \E h \in Handlers : Respond(h)

Spec == Init /\ [][Next]_vars

\* The fair runs have two request handlers working in parallel.
FairHandlers == {"h1", "h2"}

FairInit ==
    /\ AuthInit
    /\ ConsumerInit
    /\ main_pc = "bind"
    /\ pc = "connect"
    /\ result = "pending"
    /\ logged = FALSE
    /\ delivered = << >>
    /\ cur = NoTick
    /\ raw_data = EmptyMap
    /\ stats_data = EmptyMap
    /\ raw_lock = Free
    /\ stats_lock = Free
    /\ qpc = [h \in FairHandlers |-> "idle"]
    /\ qreq = [h \in FairHandlers |-> NoReq]
    /\ qresp = [h \in FairHandlers |-> NoResp]

\* Fair scheduling: code that is running and not waiting keeps running (the
\* two record blocks, a handler between its lock and its return), and a
\* task waiting for a mutex that is released again and again gets it in
\* the end. Nothing is assumed of the feed or of the clients.
Fairness ==
    /\ WF_vars(RecordRaw)
    /\ WF_vars(RecordStats)
    /\ SF_vars(LockRaw)
    /\ SF_vars(LockStats)
    /\ \A h \in FairHandlers : WF_vars(HandlerReturn(h))

\* The feed of the fair runs: one tick per symbol; whether a record
\* completes does not hang on the prices.
FairPayloads ==
    {Encode([symbol |-> "AAPL", price |-> 1, timestamp |-> "t1"]),
     Encode([symbol |-> "GOOGL", price |-> 2, timestamp |-> "t2"])}

NextSomeFair ==
    /\ NextSome
    /\ delivered'[Len(delivered')] \in FairPayloads

FairNext ==
    \/ BindOk
    \/ BindFail
    \/ ConnectOk
    \/ ConnectFail
    \/ SubscribeOk
    \/ SubscribeFail
    \/ NextSomeFair
    \/ NextNone
    \/ LockRaw
    \/ RecordRaw
    \/ LockStats
    \/ RecordStats
    \/ \E h \in FairHandlers : Dispatch(h)
    \/ \E h \in FairHandlers : HandlerLockStats(h)
    \/ \E h \in FairHandlers : HandlerLockRaw(h)
    \/ \E h \in FairHandlers : HandlerReturn(h)
    \/ \E h \in FairHandlers : Respond(h)

FairSpec == FairInit /\ [][FairNext]_vars /\ Fairness

\* ----------------------------------------------------------- auth service

\* The requests the auth router dispatches: POST /register and
\* GET /is-authorized with an email, GET /list-emails without.
AuthRequests ==
    [op : {"register", "is_authorized"}, email : Emails]
    \cup {[op |-> "list_emails", email |-> ""]}

\* Variant: the set keeps only the email registered last.
Register_Replace(set, email) == {email}

\* auth_list.insert(payload.email)
Register(set, email) == set \cup {email}

\* auth_list.contains(&params.email)
IsAuthorized(set, email) == email \in set

\* The router hands an inbound request to an idle handler.
AuthDispatch(h) ==
    /\ apc[h] = "idle"
    /\ \E r \in AuthRequests : areq' = [areq EXCEPT ![h] = r]
    /\ apc' = [apc EXCEPT ![h] = "lock"]
    /\ UNCHANGED <<aggregator, consumer, authorized_emails, auth_lock, aresp, registered>>

\* state.authorized_emails.lock().unwrap()
AuthLock(h) ==
    /\ apc[h] = "lock"
    /\ auth_lock = Free
    /\ auth_lock' = h
    /\ apc' = [apc EXCEPT ![h] = "holding"]
    /\ UNCHANGED <<aggregator, consumer, authorized_emails, areq, aresp, registered>>

\* register: the insert, the guard dropped as the handler returns.
RegisterReturn(h) ==
    /\ apc[h] = "holding"
    /\ areq[h].op = "register"
    /\ authorized_emails' = Register(authorized_emails, areq[h].email)
    /\ registered' = registered \cup {areq[h].email}
    /\ aresp' = [aresp EXCEPT ![h] = "Registered"]
    /\ auth_lock' = Free
    /\ apc' = [apc EXCEPT ![h] = "respond"]
    /\ UNCHANGED <<aggregator, consumer, areq>>

\* is_authorized: Json(auth_list.contains(&params.email)).
IsAuthorizedReturn(h) ==
    /\ apc[h] = "holding"
    /\ areq[h].op = "is_authorized"
    /\ aresp' = [aresp EXCEPT ![h] = IsAuthorized(authorized_emails, areq[h].email)]
    /\ auth_lock' = Free
    /\ apc' = [apc EXCEPT ![h] = "respond"]
    /\ UNCHANGED <<aggregator, consumer, authorized_emails, areq, registered>>

\* list_emails: Json(auth_list.iter().cloned().collect()); the order of a
\* HashSet's iteration is not kept, the answer is taken as a set.
ListEmailsReturn(h) ==
    /\ apc[h] = "holding"
    /\ areq[h].op = "list_emails"
    /\ aresp' = [aresp EXCEPT ![h] = authorized_emails]
    /\ auth_lock' = Free
    /\ apc' = [apc EXCEPT ![h] = "respond"]
    /\ UNCHANGED <<aggregator, consumer, authorized_emails, areq, registered>>

\* axum writes the response.
AuthRespond(h) ==
    /\ apc[h] = "respond"
    /\ apc' = [apc EXCEPT ![h] = "idle"]
    /\ areq' = [areq EXCEPT ![h] = NoAuthReq]
    /\ aresp' = [aresp EXCEPT ![h] = NoResp]
    /\ UNCHANGED <<aggregator, consumer, authorized_emails, auth_lock, registered>>

\* --------------------------------------------------------- gated consumer

\* main returns (Ok or Err): the process ends.
ConsumerExit == cpc' = "done"

\* env::args(): fewer than two arguments prints the usage and returns.
ConsumerNoArg ==
    /\ cpc = "start"
    /\ ConsumerExit
    /\ UNCHANGED <<aggregator, auth, carg, cres, csub, crecv>>

\* env::args(): email = &args[1].
ConsumerArg ==
    /\ cpc = "start"
    /\ \E e \in Args : carg' = e
    /\ cpc' = "lookup"
    /\ UNCHANGED <<aggregator, auth, cres, csub, crecv>>

\* Variant: the test of the lookup's answer is inverted.
AfterLookup_Inverted(res) == IF res THEN "done" ELSE "connect"

\* if !res { println!("Access denied"); return Ok(()); }
AfterLookup(res) == IF res THEN "connect" ELSE "done"

\* reqwest::get(&auth_url).await?.json::<bool>().await? answers: the auth
\* service's is_authorized ran for the email in the URL, under its lock.
ConsumerLookup ==
    /\ cpc = "lookup"
    /\ auth_lock = Free
    /\ LET res == IsAuthorized(authorized_emails, QueryEmail(carg))
       IN  /\ cres' = IF res THEN "true" ELSE "false"
           /\ cpc' = AfterLookup(res)
    /\ UNCHANGED <<aggregator, auth, carg, csub, crecv>>

\* reqwest::get(..).await? or .json::<bool>().await? fails: main returns.
ConsumerLookupFail ==
    /\ cpc = "lookup"
    /\ cres' = "failed"
    /\ ConsumerExit
    /\ UNCHANGED <<aggregator, auth, carg, csub, crecv>>

\* ConnectOptions::new().connect(..).await? succeeds.
ConsumerConnectOk ==
    /\ cpc = "connect"
    /\ cpc' = "subscribe"
    /\ UNCHANGED <<aggregator, auth, carg, cres, csub, crecv>>

\* ConnectOptions::new().connect(..).await? fails.
ConsumerConnectFail ==
    /\ cpc = "connect"
    /\ ConsumerExit
    /\ UNCHANGED <<aggregator, auth, carg, cres, csub, crecv>>

\* client.subscribe("stock_prices").await? succeeds.
ConsumerSubscribeOk ==
    /\ cpc = "subscribe"
    /\ csub' = TRUE
    /\ cpc' = "next"
    /\ UNCHANGED <<aggregator, auth, carg, cres, crecv>>

\* client.subscribe("stock_prices").await? fails.
ConsumerSubscribeFail ==
    /\ cpc = "subscribe"
    /\ ConsumerExit
    /\ UNCHANGED <<aggregator, auth, carg, cres, csub, crecv>>

\* subscriber.next().await yields Some(message): it is printed, decoded or
\* not, and the loop goes on.
ConsumerNextSome ==
    /\ cpc = "next"
    /\ crecv' = TRUE
    /\ UNCHANGED <<aggregator, auth, cpc, carg, cres, csub>>

\* subscriber.next().await yields None: Ok(()) is returned.
ConsumerNextNone ==
    /\ cpc = "next"
    /\ ConsumerExit
    /\ UNCHANGED <<aggregator, auth, carg, cres, csub, crecv>>

\* The auth service and a consumer started beside it.
AuthNext ==
    \/ \E h \in AuthHandlers : AuthDispatch(h)
    \/ \E h \in AuthHandlers : AuthLock(h)
    \/ \E h \in AuthHandlers : RegisterReturn(h)
    \/ \E h \in AuthHandlers : IsAuthorizedReturn(h)
    \/ \E h \in AuthHandlers : ListEmailsReturn(h)
    \/ \E h \in AuthHandlers : AuthRespond(h)
    \/ ConsumerNoArg
    \/ ConsumerArg
    \/ ConsumerLookup
    \/ ConsumerLookupFail
    \/ ConsumerConnectOk
    \/ ConsumerConnectFail
    \/ ConsumerSubscribeOk
    \/ ConsumerSubscribeFail
    \/ ConsumerNextSome
    \/ ConsumerNextNone

AuthSpec == Init /\ [][AuthNext]_vars

\* ------------------------------------------- reference definitions
\* What the store should hold, computed from the feed alone.

\* The ticks of the decodable payloads of ps, in order.
Decoded(ps) ==
    LET ok == SelectSeq(ps, DecodeOk)
    IN  [i \in 1..Len(ok) |-> Decode(ok[i])]

\* The ticks of ts that are for symbol s, in order.
ForSymbol(ts, s) == SelectSeq(ts, LAMBDA t : t.symbol = s)

RECURSIVE SumPrices(_)
SumPrices(ts) ==
    IF ts = << >> THEN 0 ELSE ts[1].price + SumPrices(Tail(ts))

\* The aggregate of a non-empty sequence of ticks, computed from scratch.
AggregateOf(ts) ==
    [total   |-> SumPrices(ts),
     count   |-> Len(ts),
     average |-> Quot(SumPrices(ts), Len(ts)),
     latest  |-> ts[Len(ts)].price]

SymbolsOf(ts) == {ts[i].symbol : i \in 1..Len(ts)}

HistoryMapOf(ts) == [s \in SymbolsOf(ts) |-> ForSymbol(ts, s)]
AggregateMapOf(ts) == [s \in SymbolsOf(ts) |-> AggregateOf(ForSymbol(ts, s))]

\* The loop body is between decoding a tick and finishing its record.
InProgress == pc \in {"lock_raw", "push_raw", "lock_stats", "update_stats"}

\* Every tick received so far.
Received == Decoded(delivered)

\* The loop has returned from start_nats_listener.
Stopped == pc = "returned"

IsPrefix(a, b) == Len(a) <= Len(b) /\ SubSeq(b, 1, Len(a)) = a

\* A handler is returning its value in this step.
Returns(h) == qpc[h] = "holding" /\ qpc'[h] = "respond"

\* ------------------------------------------------------------------ claims

\* C1: record(tick) is atomic for readers: whenever a query can acquire a
\* lock (the server is serving and both mutexes are free), every symbol is
\* in the history map iff it is in the aggregate map, and its history is as
\* long as its count.
C1_RecordAtomic ==
    (main_pc = "serve" /\ raw_lock = Free /\ stats_lock = Free) =>
        /\ DOMAIN raw_data = DOMAIN stats_data
        /\ \A s \in DOMAIN raw_data : Len(raw_data[s]) = stats_data[s].count

\* C2: once the loop has processed every tick it received, each symbol
\* that got n >= 1 ticks has count = n, total = the sum of the n prices,
\* latest = the last price and average = total / count.
C2_IncrementalCorrectness ==
    ~InProgress =>
        \A s \in Symbols :
            LET ts == ForSymbol(Received, s)
            IN  Len(ts) >= 1 =>
                  /\ s \in DOMAIN stats_data
                  /\ stats_data[s].count = Len(ts)
                  /\ stats_data[s].total = SumPrices(ts)
                  /\ stats_data[s].latest = ts[Len(ts)].price
                  /\ stats_data[s].average
                       = Quot(stats_data[s].total, stats_data[s].count)

C2_Witness ==
    /\ pc = "next"
    /\ \E s \in DOMAIN stats_data :
          /\ stats_data[s].count = 3
          /\ stats_data[s].total = 5
          /\ stats_data[s].latest = 1

\* C3: a step that processes a tick for symbol A leaves every other
\* symbol's history and aggregate as they were, absent ones absent.
C3_Isolation ==
    [][\A a \in Symbols, b \in QuerySymbols :
          (InProgress /\ cur.symbol = a /\ b # a) =>
              /\ b \in DOMAIN raw_data' <=> b \in DOMAIN raw_data
              /\ b \in DOMAIN stats_data' <=> b \in DOMAIN stats_data
              /\ b \in DOMAIN raw_data => raw_data'[b] = raw_data[b]
              /\ b \in DOMAIN stats_data => stats_data'[b] = stats_data[b]]_vars

C3_Witness ==
    /\ pc = "next"
    /\ DOMAIN stats_data = {"AAPL", "GOOGL"}
    /\ stats_data["AAPL"].count = 2
    /\ stats_data["GOOGL"].count = 1
    /\ Len(raw_data["GOOGL"]) = 1

\* What a route should return for the histories raw and aggregates stats.
ExpectedSnapshot(req, raw, stats) ==
    LET lookup(m) == IF req.symbol \in DOMAIN m
                        THEN [some |-> TRUE, val |-> m[req.symbol]]
                        ELSE [some |-> FALSE]
    IN  CASE req.op = "get_stats"            -> stats
          [] req.op = "get_raw"              -> raw
          [] req.op = "get_stats_for_symbol" -> lookup(stats)
          [] req.op = "get_raw_for_symbol"   -> lookup(raw)

\* C4: a snapshot taken when k record calls have completed and none is in
\* progress is the cumulative effect of exactly those k calls: histories
\* are each symbol's ticks in arrival order, aggregates the fold of them.
C4_SnapshotConsistency ==
    [][\A h \in Handlers :
          (Returns(h) /\ ~InProgress) =>
              qresp'[h] = ExpectedSnapshot(qreq[h], HistoryMapOf(Received),
                                           AggregateMapOf(Received))]_vars

C4_Witness ==
    /\ pc = "next"
    /\ qpc["h1"] = "respond"
    /\ qreq["h1"].op = "get_raw"
    /\ DOMAIN qresp["h1"] = {"AAPL", "GOOGL"}
    /\ Len(qresp["h1"]["AAPL"]) = 2
    /\ qresp["h1"]["AAPL"][1] # qresp["h1"]["AAPL"][2]
    /\ Len(delivered) = 3

\* The store obtained by recording the ticks ts one after the other.
RECURSIVE Replay(_)
Replay(ts) ==
    IF ts = << >> THEN <<EmptyMap, EmptyMap>>
    ELSE LET before == Replay(SubSeq(ts, 1, Len(ts) - 1))
             t == ts[Len(ts)]
         IN  <<PushRaw(before[1], t), UpdateStats(before[2], t)>>

\* C5: a payload that does not decode changes neither map and leaves the
\* loop waiting for the next message; and whenever no record is in progress
\* the store is what recording only the decodable payloads, in the same
\* order, gives.
C5_MalformedResilience ==
    /\ [](~InProgress => store = Replay(Decoded(delivered)))
    /\ [][(Len(delivered') > Len(delivered)
             /\ ~DecodeOk(delivered'[Len(delivered')]))
          => (store' = store /\ pc' = "next")]_vars

C5_Witness ==
    /\ pc = "next"
    /\ Len(delivered) = 3
    /\ DecodeOk(delivered[1])
    /\ ~DecodeOk(delivered[2])
    /\ DecodeOk(delivered[3])
    /\ "AAPL" \in DOMAIN stats_data
    /\ stats_data["AAPL"].count = 2

PerSymbolOps == {"get_stats_for_symbol", "get_raw_for_symbol"}

\* C6: a per-symbol query for a symbol no tick was received for returns
\* None, not a zeroed aggregate or an empty history, and adds no entry.
C6_UnknownSymbol ==
    [][\A h \in Handlers :
          (/\ Returns(h)
           /\ qreq[h].op \in PerSymbolOps
           /\ ForSymbol(Received, qreq[h].symbol) = << >>)
          => (~qresp'[h].some /\ store' = store)]_vars

C6_Witness ==
    /\ qpc["h1"] = "respond"
    /\ qreq["h1"].op = "get_stats_for_symbol"
    /\ qreq["h1"].symbol = "GOOGL"
    /\ ~qresp["h1"].some
    /\ "AAPL" \in DOMAIN stats_data
    /\ ForSymbol(Received, "GOOGL") = << >>

\* An aggregate a reader got for symbol s is whole: it counts at least one
\* tick, its average is total / count, and its total and latest are those
\* of the first count ticks received for s.
Whole(a, s) ==
    LET ts == ForSymbol(Received, s)
    IN  /\ a.count >= 1
        /\ a.count <= Len(ts)
        /\ a.average = Quot(a.total, a.count)
        /\ a.latest = ts[a.count].price
        /\ a.total = SumPrices(SubSeq(ts, 1, a.count))

\* C7: every aggregate a query returned has count >= 1, average = total /
\* count and latest = the price of the last tick folded into it; the zero
\* state is never seen.
C7_NoTornAggregate ==
    \A h \in Handlers :
        qpc[h] = "respond" =>
            /\ qreq[h].op = "get_stats" =>
                 \A s \in DOMAIN qresp[h] : Whole(qresp[h][s], s)
            /\ (qreq[h].op = "get_stats_for_symbol" /\ qresp[h].some) =>
                 Whole(qresp[h].val, qreq[h].symbol)

C7_Witness ==
    /\ qpc["h1"] = "respond"
    /\ qreq["h1"].op = "get_stats"
    /\ "AAPL" \in DOMAIN qresp["h1"]
    /\ qresp["h1"]["AAPL"].count = 2
    /\ qresp["h1"]["AAPL"].average = [num |-> 3, den |-> 2]
    /\ pc = "update_stats"
    /\ cur.symbol = "AAPL"

\* C8: whenever the ingestion loop has terminated (failed connect, failed
\* subscribe, or the subscription stream ending), its termination is
\* reported as a failure: start_nats_listener returned an error and main's
\* task printed it.
C8_FeedFailureReported ==
    Stopped => (result = "Err" /\ logged)

\* The handler's next step, whichever it is.
HandlerStep(h) ==
    \/ Dispatch(h)
    \/ HandlerLockStats(h)
    \/ HandlerLockRaw(h)
    \/ HandlerReturn(h)
    \/ Respond(h)

\* C9: once the loop has stopped it stays stopped: it is not resumed, no
\* further message is taken from the feed and both maps stay as they are;
\* the handlers still run, and what they return is the frozen store.
C9_StoppedIsTerminal ==
    /\ [][Stopped =>
            /\ Stopped'
            /\ UNCHANGED <<result, delivered, cur, raw_data, stats_data>>
            /\ \A h \in Handlers :
                  Returns(h) =>
                      qresp'[h] = ExpectedSnapshot(qreq[h], HistoryMapOf(Received),
                                                   AggregateMapOf(Received))]_vars
    /\ []((Stopped /\ main_pc = "serve") =>
              \A h \in Handlers : ENABLED HandlerStep(h))

C9_Witness ==
    /\ Stopped
    /\ result = "Ok"
    /\ Len(delivered) = 2
    /\ qpc["h1"] = "respond"
    /\ qreq["h1"].op = "get_stats_for_symbol"
    /\ qresp["h1"].some
    /\ qresp["h1"].val.count = 2

\* The ticks whose history append has been done.
Pushed ==
    IF pc \in {"lock_raw", "push_raw"}
       THEN SubSeq(Received, 1, Len(Received) - 1)
       ELSE Received

\* C10: history is append-only in arrival order: each symbol's history is
\* the ticks received for it in the order the feed delivered them, nothing
\* reordered, dropped or merged; and a step only ever extends a history.
C10_HistoryAppendOnly ==
    /\ [](raw_data = HistoryMapOf(Pushed))
    /\ [][\A s \in DOMAIN raw_data :
             /\ s \in DOMAIN raw_data'
             /\ IsPrefix(raw_data[s], raw_data'[s])]_vars

C10_Witness ==
    /\ "AAPL" \in DOMAIN raw_data
    /\ Len(raw_data["AAPL"]) = 3
    /\ raw_data["AAPL"][1] = raw_data["AAPL"][2]
    /\ raw_data["AAPL"][3].timestamp = "t1"
    /\ raw_data["AAPL"][2].timestamp = "t2"


\* The count, total and history length of symbol s, 0 while s is absent.
CountOf(m, s) == IF s \in DOMAIN m THEN m[s].count ELSE 0
TotalOf(m, s) == IF s \in DOMAIN m THEN m[s].total ELSE 0
LenOf(m, s) == IF s \in DOMAIN m THEN Len(m[s]) ELSE 0

\* The step that finishes the history append / the aggregate update.
PushStep == pc = "push_raw" /\ pc' = "lock_stats"
FoldStep == pc = "update_stats" /\ pc' = "next"

\* C11: ticks are folded exactly as received, last arrival wins: every
\* recorded tick, a duplicate or a late one included, appends one history
\* entry, adds 1 to count and its price to total, and becomes latest; so a
\* tick delivered twice counts twice, and at rest latest is the price of
\* the last tick received for the symbol whatever the timestamps are.
C11_FoldedAsReceived ==
    /\ [][PushStep =>
            /\ LenOf(raw_data', cur.symbol) = LenOf(raw_data, cur.symbol) + 1
            /\ raw_data'[cur.symbol][Len(raw_data'[cur.symbol])] = cur]_vars
    /\ [][FoldStep =>
            /\ CountOf(stats_data', cur.symbol) = CountOf(stats_data, cur.symbol) + 1
            /\ TotalOf(stats_data', cur.symbol)
                 = TotalOf(stats_data, cur.symbol) + cur.price
            /\ stats_data'[cur.symbol].latest = cur.price]_vars
    /\ [](\A s \in Symbols :
            LET ts == ForSymbol(Received, s)
            IN  (~InProgress /\ ts # << >>) =>
                   /\ stats_data[s].latest = ts[Len(ts)].price
                   /\ stats_data[s].count = Len(ts)
                   /\ Len(raw_data[s]) = Len(ts))

\* The same tick twice, then an older tick with another price.
C11_Witness ==
    /\ pc = "next"
    /\ Len(Received) = 3
    /\ Received[1] = Received[2]
    /\ Received[1] = [symbol |-> "AAPL", price |-> 2, timestamp |-> "t2"]
    /\ Received[3] = [symbol |-> "AAPL", price |-> 1, timestamp |-> "t1"]
    /\ stats_data["AAPL"].count = 3
    /\ stats_data["AAPL"].total = 5
    /\ stats_data["AAPL"].latest = 1
    /\ Len(raw_data["AAPL"]) = 3


\* C12: entries are created lazily and never evicted: a key enters the
\* history map only by the push of a tick for that symbol and the aggregate
\* map only by the fold of one, each starting with that single tick; no key
\* ever leaves a map, and no count or history length ever decreases.
C12_LazyNoEviction ==
    /\ [][\A s \in QuerySymbols :
            /\ (s \notin DOMAIN raw_data /\ s \in DOMAIN raw_data') =>
                  (PushStep /\ cur.symbol = s /\ raw_data'[s] = <<cur>>)
            /\ (s \notin DOMAIN stats_data /\ s \in DOMAIN stats_data') =>
                  (FoldStep /\ cur.symbol = s /\ stats_data'[s].count = 1)
            /\ s \in DOMAIN raw_data => s \in DOMAIN raw_data'
            /\ s \in DOMAIN stats_data => s \in DOMAIN stats_data'
            /\ LenOf(raw_data', s) >= LenOf(raw_data, s)
            /\ CountOf(stats_data', s) >= CountOf(stats_data, s)]_vars
    /\ [](/\ DOMAIN raw_data \subseteq SymbolsOf(Received)
          /\ DOMAIN stats_data \subseteq SymbolsOf(Received))

\* GOOGL's entries are created while AAPL's, created earlier, are kept.
C12_Witness ==
    /\ pc = "next"
    /\ Len(Received) = 3
    /\ Received[1].symbol = "AAPL"
    /\ Received[2].symbol = "GOOGL"
    /\ Received[3].symbol = "GOOGL"
    /\ DOMAIN raw_data = {"AAPL", "GOOGL"}
    /\ DOMAIN stats_data = {"AAPL", "GOOGL"}
    /\ "MSFT" \notin DOMAIN raw_data


\* C13: the query surface has no write path: no step of a request handler
\* (dispatch, lock, return, respond), on any route and for any symbol,
\* changes the history map or the aggregate map.
C13_NoWritePath ==
    [][\A h \in Handlers :
          qpc'[h] # qpc[h] => (raw_data' = raw_data /\ stats_data' = stats_data)]_vars

\* A per-symbol query for a symbol without an entry has returned while the
\* store holds another symbol, and the asked symbol still has no entry.
C13_Witness ==
    /\ qpc["h1"] = "respond"
    /\ qreq["h1"] = [op |-> "get_raw_for_symbol", symbol |-> "MSFT"]
    /\ ~qresp["h1"].some
    /\ DOMAIN raw_data = {"AAPL", "GOOGL"}
    /\ DOMAIN stats_data = {"AAPL", "GOOGL"}


\* The listener is suspended at an .await (or has returned).
AtAwait == pc \in {"connect", "subscribe", "next", "returned"}

\* C14: lock discipline: a lock is held for one logical operation only.
\* The listener holds the history lock exactly during its push and the
\* aggregate lock exactly during its fold, and neither while it is
\* suspended waiting for the feed; a handler holds a lock only between
\* locking and returning, and none once its response is being serialized;
\* nobody holds both locks.
C14_LockDiscipline ==
    /\ raw_lock = "listener" <=> pc = "push_raw"
    /\ stats_lock = "listener" <=> pc = "update_stats"
    /\ AtAwait => (raw_lock # "listener" /\ stats_lock # "listener")
    /\ \A h \in Handlers :
          /\ (raw_lock = h \/ stats_lock = h) => qpc[h] = "holding"
          /\ qpc[h] \in {"idle", "lock", "respond"} =>
                (raw_lock # h /\ stats_lock # h)
    /\ (raw_lock # Free) => raw_lock # stats_lock

\* The loop waits for its next message after a record, and a handler's
\* response is being written, with both locks free.
C14_Witness ==
    /\ pc = "next"
    /\ "AAPL" \in DOMAIN stats_data
    /\ qpc["h1"] = "respond"
    /\ qreq["h1"].op = "get_stats"
    /\ "AAPL" \in DOMAIN qresp["h1"]
    /\ raw_lock = Free
    /\ stats_lock = Free


\* Every tick received is in its history and folded into its aggregate.
Applied ==
    /\ ~InProgress
    /\ raw_data = HistoryMapOf(Received)
    /\ stats_data = AggregateMapOf(Received)

\* Nobody waits for one lock while holding the other.
NoHoldAndWait ==
    /\ pc = "lock_raw" => stats_lock # "listener"
    /\ pc = "lock_stats" => raw_lock # "listener"
    /\ \A h \in FairHandlers :
          qpc[h] = "lock" => (raw_lock # h /\ stats_lock # h)

\* A record in progress can take its next step, or the lock it waits for
\* is held by a handler that can return.
NotStuck ==
    InProgress =>
        \/ ENABLED (LockRaw \/ RecordRaw \/ LockStats \/ RecordStats)
        \/ \E h \in FairHandlers : ENABLED HandlerReturn(h)

C16_SnapshotsAreCopies ==
    [][\A h \in Handlers :
          (qpc[h] = "respond" /\ qpc'[h] = "respond") => qresp'[h] = qresp[h]]_vars

\* A reader holds aggregates with one AAPL tick while the store already
\* has two.
C16_Witness ==
    /\ qpc["h1"] = "respond"
    /\ qreq["h1"].op = "get_stats"
    /\ "AAPL" \in DOMAIN qresp["h1"]
    /\ qresp["h1"]["AAPL"].count = 1
    /\ "AAPL" \in DOMAIN stats_data
    /\ stats_data["AAPL"].count = 2


\* The symbols whose history and aggregate are out of step.
OutOfStep == {s \in QuerySymbols : LenOf(raw_data, s) # CountOf(stats_data, s)}

\* C17: bounded lag: for every symbol the aggregate's count is at most the
\* history length and at least the history length minus one (count 0 while
\* the symbol has no aggregate), so the aggregate is never ahead; at most
\* one symbol is out of step at a time; and while the loop waits for its
\* next message every symbol is in step and the maps have the same keys.
C17_BoundedLag ==
    /\ \A s \in QuerySymbols :
          /\ CountOf(stats_data, s) <= LenOf(raw_data, s)
          /\ LenOf(raw_data, s) <= CountOf(stats_data, s) + 1
    /\ DOMAIN stats_data \subseteq DOMAIN raw_data
    /\ Cardinality(OutOfStep) <= 1
    /\ ~InProgress => (OutOfStep = {} /\ DOMAIN raw_data = DOMAIN stats_data)

\* AAPL's third tick is in its history and not yet in its aggregate.
C17_Witness ==
    /\ pc = "lock_stats"
    /\ cur.symbol = "AAPL"
    /\ Len(raw_data["AAPL"]) = 3
    /\ stats_data["AAPL"].count = 2
    /\ OutOfStep = {"AAPL"}


\* An auth handler is returning its value in this step.
AuthReturns(h) == apc[h] = "holding" /\ apc'[h] = "respond"

\* C18: the authorization registry is monotone: is_authorized(e) returns
\* true iff some register(e) call has returned before it, and changes
\* nothing; register(e) adds e and nothing else (a second register(e)
\* leaves the set as it is); no step removes an email, so an email
\* is_authorized has answered true for stays authorized.
C18_RegistryMonotone ==
    /\ [][\A h \in AuthHandlers :
            /\ (AuthReturns(h) /\ areq[h].op = "is_authorized") =>
                  /\ aresp'[h] = (areq[h].email \in registered)
                  /\ authorized_emails' = authorized_emails
            /\ (AuthReturns(h) /\ areq[h].op = "register") =>
                  /\ authorized_emails' = authorized_emails \cup {areq[h].email}
                  /\ (areq[h].email \in authorized_emails =>
                        authorized_emails' = authorized_emails)]_vars
    /\ [][authorized_emails \subseteq authorized_emails']_vars
    /\ [](\A h \in AuthHandlers :
            (apc[h] = "respond" /\ areq[h].op = "is_authorized" /\ aresp[h] = TRUE)
               => areq[h].email \in authorized_emails)

\* One handler has answered true for an email while the other has just
\* registered the second email; both are in the set.
C18_Witness ==
    /\ apc["r1"] = "respond"
    /\ areq["r1"] = [op |-> "is_authorized", email |-> "a@x.io"]
    /\ aresp["r1"] = TRUE
    /\ apc["r2"] = "respond"
    /\ areq["r2"] = [op |-> "register", email |-> "b c@x.io"]
    /\ authorized_emails = {"a@x.io", "b c@x.io"}

\* C19: consumer gating: the consumer connects, subscribes and receives
\* only after the lookup for its email argument answered true, which takes
\* a register call for the email read from the lookup URL to have
\* returned; when the lookup answers
\* false or fails, or no email is given, the consumer ends without having
\* subscribed or received anything.
C19_ConsumerGating ==
    /\ (cpc \in {"connect", "subscribe", "next"} \/ csub \/ crecv) =>
          (cres = "true" /\ carg \in Args /\ QueryEmail(carg) \in registered)
    /\ (cres \in {"false", "failed"} \/ (cpc # "start" /\ carg = NoArg)) =>
          (cpc = "done" /\ ~csub /\ ~crecv)

\* The consumer has received a message after its lookup answered true for
\* the one registered email, while the other email is not registered.
C19_Witness ==
    /\ cpc = "next"
    /\ crecv
    /\ csub
    /\ cres = "true"
    /\ carg = "a@x.io"
    /\ authorized_emails = {"a@x.io"}

====
